---- MODULE Spec2Model ----
(***************************************************************************)
(* The solvers of socialchoice/vote/solver (sr.py: ESR, PSR, SPSR; ssr.py: *)
(* SSR) as a state machine of one solve call.                              *)
(*                                                                         *)
(* Numbers.  Heights, probabilities and climbing times are floats in the   *)
(* code.  Here they are integers counting units of 1/Scale, so that 1.0 is *)
(* Scale; a speed is an integer number of agents.  Every LP optimum of the *)
(* populations below is a multiple of 1/12, so the LPs are solved over the *)
(* lattice of such multiples.  The tolerance test numpy.isclose keeps its  *)
(* formula, with the tolerances of settings.py (10 ** -5).                 *)
(***************************************************************************)
EXTENDS Integers, Sequences, FiniteSets, TLC

Scale == 12
TolInv == 100000
MaxIterations == 12

Choices == {"a", "b", "c"}
AgentIds == {1, 2, 3}
Variants == {"ESR", "PSR", "SPSR", "SSR"}

VARIABLES vote, variant, pc, error, agents, towers, climbTime, tight, iterations, lottery,
          call, result

vars == <<vote, variant, pc, error, agents, towers, climbTime, tight, iterations, lottery,
          call, result>>

----------------------------------------------------------------------------
(* society.py: choice classes, preferences, votes *)

ChoiceClasses == (SUBSET Choices) \ {{}}

isSubsetOf(self, other) == self \subseteq other

Range(f) == {f[i] : i \in DOMAIN f}

IsPreference(pref) ==
    /\ Len(pref) >= 1
    /\ \A i, j \in DOMAIN pref : i # j => pref[i] \cap pref[j] = {}
    /\ UNION Range(pref) = Choices

Preferences ==
    {pref \in UNION {[1..k -> ChoiceClasses] : k \in 1..Cardinality(Choices)} :
        IsPreference(pref)}

getAgentCount(v) == Cardinality(DOMAIN v)

\* Vote.getChoices: every choice of every agent's choice classes
getChoices(v) == UNION {UNION Range(v[a]) : a \in DOMAIN v}

----------------------------------------------------------------------------
(* settings.py: the tolerance context *)

Abs(x) == IF x < 0 THEN -x ELSE x

\* numpy.isclose(a, b, rtol, atol): |a - b| <= atol + rtol * |b|, in units of
\* 1/Scale: TolInv * |a - b| <= Scale + |b|, the division keeping the numbers small
isClose(a, b) == Abs(a - b) <= (Scale + Abs(b)) \div TolInv

isNonnegative(a) == IF a > 0 THEN TRUE ELSE isClose(a, 0)

\* (mutant) only the lower end of the interval is tested
isInIntervalLowerOnly(value, a, b) == ~(value < a) \/ isClose(value, a)

isInInterval(value, a, b) ==
    IF value < a THEN isClose(value, a)
    ELSE IF b < value THEN isClose(b, value)
    ELSE TRUE

bound(value, a, b) ==
    IF value < a THEN a ELSE IF b < value THEN b ELSE value

\* checkBound raises unless isInInterval holds (checkBoundOk), and returns the bounded value
checkBoundOk(value, a, b) == isInInterval(value, a, b)

checkBound(value, a, b) == bound(value, a, b)

----------------------------------------------------------------------------
(* The LP engine (pulp): an optimum over the distributions of the lattice *)

RECURSIVE SumOver(_, _)
SumOver(f, S) ==
    IF S = {} THEN 0
    ELSE LET x == CHOOSE y \in S : TRUE IN f[x] + SumOver(f, S \ {x})

\* LpVariable.dicts("p", ..., lowBound=0): one nonnegative variable per choice
ChoiceVariables == [Choices -> 0..Scale]

\* createLpSum(choiceClass, ...) for every class, tabulated per assignment
MassTable == {[cc \in SUBSET Choices |-> SumOver(p, cc)] : p \in ChoiceVariables}

\* problem += lpSum(choiceVariables) <= 1, "Distribution"
Distributions == {m \in MassTable : m[Choices] <= Scale}

Max(S) == CHOOSE x \in S : \A y \in S : y <= x
Min(S) == CHOOSE x \in S : \A y \in S : x <= y

\* a constraint [cc, height, speed] at time t: mass(cc) >= height + t * speed
Satisfies(m, cons, t) == \A c \in cons : m[c.cc] >= c.height + t * c.speed

\* the largest t in [0, maximumTime] at which m satisfies the constraints, -1 if none
LatestTime(m, cons, maximumTime) ==
    IF \E c \in cons : m[c.cc] < c.height THEN -1
    ELSE Min({maximumTime} \cup
             {(m[c.cc] - c.height) \div c.speed : c \in {d \in cons : d.speed > 0}})

\* maximise lambda in [0, maximumTime] over the distributions:
\* "Infeasible" when no distribution satisfies the constraints at any time
LambdaLP(cons, maximumTime) ==
    LET best == Max({LatestTime(m, cons, maximumTime) : m \in Distributions})
    IN  IF best < 0 THEN [status |-> "Infeasible", value |-> 0]
        ELSE [status |-> "Optimal", value |-> best]

\* the distributions that satisfy the constraints at the fixed time lambda
FeasibleAt(cons, lambda) == {d \in Distributions : Satisfies(d, cons, lambda)}

\* (mutant) the objective subtracts the height twice
SlackLPHeightTwice(feasible, lambda, cc, height, speed) ==
    IF feasible = {} THEN [status |-> "Infeasible", value |-> 0]
    ELSE [status |-> "Optimal",
          value |-> Max({m[cc] : m \in feasible}) - lambda * speed - height - height]

\* (mutant) the objective lacks the term lambda * speed
SlackLPNoPush(feasible, lambda, cc, height, speed) ==
    IF feasible = {} THEN [status |-> "Infeasible", value |-> 0]
    ELSE [status |-> "Optimal", value |-> Max({m[cc] : m \in feasible}) - height]

\* maximise mass(cc) - lambda * speed - height over them
SlackLP(feasible, lambda, cc, height, speed) ==
    IF feasible = {} THEN [status |-> "Infeasible", value |-> 0]
    ELSE [status |-> "Optimal",
          value |-> Max({m[cc] : m \in feasible}) - lambda * speed - height]

\* checkPulpStatus: every status but optimal raises
checkPulpStatus(status) == status = "Optimal"

----------------------------------------------------------------------------
(* sr.py: the agent-centric engine *)

\* Tower.__init__ (sr.py and ssr.py): height 0, speed 0, not frozen
NewTower == [height |-> 0, speed |-> 0, frozen |-> FALSE]

\* AgentData.__init__: on the first choice class, speed 1, height 0
NewAgentData == [cur |-> 1, height |-> 0, speed |-> 1]

\* SRState.getTower / SSRState.getTower: the towers after the lazy creation of cc's
getTower(T, cc) ==
    IF cc \in DOMAIN T THEN T
    ELSE [c \in DOMAIN T \cup {cc} |-> IF c \in DOMAIN T THEN T[c] ELSE NewTower]

\* AgentData.isFinished: the iterator over the choice classes is exhausted
isFinished(v, A, a) == A[a].cur > Len(v[a])

getCurrentChoiceClass(v, A, a) == v[a][A[a].cur]

\* SRState._getActiveAgentData
getActiveAgents(v, A) == {a \in DOMAIN A : ~isFinished(v, A, a)}

\* SRState.isFinished
stateIsFinished(v, A) == \A a \in DOMAIN A : isFinished(v, A, a)

\* sr.Tower.setHeight / AgentData.setHeight: raises outside [0, 1]
heightOk(height) == ~(height < 0 \/ Scale < height)

\* (mutant) the tower never climbs
tryClimbNever(T, cc, climberHeight) == T

\* (mutant) the comparison of tryClimb is lost: the tower takes every climber's height
tryClimbAlways(T, cc, climberHeight) == [T EXCEPT ![cc].height = climberHeight]

\* sr.Tower.tryClimb: the towers after cc's tower tried to climb to climberHeight
tryClimb(T, cc, climberHeight) ==
    IF climberHeight > T[cc].height
    THEN [T EXCEPT ![cc].height = climberHeight]
    ELSE T

\* (mutant) the agent's speed is reset when it moves to the next tie-group
advanceCurrentChoiceClassResetSpeed(ad) ==
    [ad EXCEPT !.cur = ad.cur + 1, !.height = 0, !.speed = 1]

\* (mutant) the agent keeps its height when it moves to the next tie-group
advanceCurrentChoiceClassKeepHeight(ad) == [ad EXCEPT !.cur = ad.cur + 1]

\* AgentData.advanceCurrentChoiceClass: next class (or finished), height 0
advanceCurrentChoiceClass(ad) == [ad EXCEPT !.cur = ad.cur + 1, !.height = 0]

\* One iteration of the loop of SRState.advance, for agent a.
\* st = [agents, towers, error]: error is "" until some call raises
advanceAgent(v, st, a, climbingTime, bouncingAgents) ==
    IF st.error # "" \/ isFinished(v, st.agents, a) THEN st
    ELSE
      LET currentClass == getCurrentChoiceClass(v, st.agents, a)
          T1 == getTower(st.towers, currentClass)
          climbedHeight == st.agents[a].height + climbingTime * st.agents[a].speed
      IN  IF ~isInInterval(climbedHeight, 0, Scale)
          THEN [st EXCEPT !.error = "height"]
          ELSE
            LET bounded == bound(climbedHeight, 0, Scale)
                T2 == tryClimb(T1, currentClass, bounded)
            IN  IF a \in bouncingAgents
                THEN [st EXCEPT !.towers = T2,
                                !.agents[a] = advanceCurrentChoiceClass(st.agents[a])]
                ELSE [st EXCEPT !.towers = T2, !.agents[a].height = bounded]

\* SRState.advance: the agents are visited in the order of the dict's values
RECURSIVE advanceSR(_, _, _, _, _)
advanceSR(v, st, order, climbingTime, bouncingAgents) ==
    IF order = <<>> THEN st
    ELSE advanceSR(v, advanceAgent(v, st, Head(order), climbingTime, bouncingAgents),
                   Tail(order), climbingTime, bouncingAgents)

\* the orders a dict of these agents may be iterated in
Orders(S) == {o \in [1..Cardinality(S) -> S] : \A i, j \in DOMAIN o : i # j => o[i] # o[j]}

\* SRState.getCurrentClassHeights: the towers of positive height
getCurrentClassHeights(T) == {cc \in DOMAIN T : T[cc].height > 0}

\* (mutant) the towers' heights are no constraints: only the agents push
createConstraintsSRNoTowers(v, A, T) ==
    {[cc |-> getCurrentChoiceClass(v, A, a), height |-> A[a].height, speed |-> A[a].speed] :
        a \in getActiveAgents(v, A)}

\* sr.computeLambda.createConstraints: tower heights, then the agents' pushes
createConstraintsSR(v, A, T) ==
    {[cc |-> cc, height |-> T[cc].height, speed |-> 0] : cc \in getCurrentClassHeights(T)}
    \cup
    {[cc |-> getCurrentChoiceClass(v, A, a), height |-> A[a].height, speed |-> A[a].speed] :
        a \in getActiveAgents(v, A)}

\* sr.computeLambda: (lambdaOpt, bouncingAgents), or an error
computeLambdaSR(v, A, T, maximumTime) ==
    LET cons == createConstraintsSR(v, A, T)
        lp == LambdaLP(cons, maximumTime)
        lambdaOpt == lp.value
        feasible == FeasibleAt(cons, lambdaOpt)
        slack == [a \in getActiveAgents(v, A) |->
                    SlackLP(feasible, lambdaOpt, getCurrentChoiceClass(v, A, a),
                            A[a].height, A[a].speed)]
    IN  IF ~checkPulpStatus(lp.status)
        THEN [error |-> "lp", lambdaOpt |-> 0, tight |-> {}]
        ELSE IF \E a \in DOMAIN slack : ~checkPulpStatus(slack[a].status)
        THEN [error |-> "lp", lambdaOpt |-> lambdaOpt, tight |-> {}]
        ELSE IF \E a \in DOMAIN slack : ~isNonnegative(slack[a].value)
        THEN [error |-> "slack", lambdaOpt |-> lambdaOpt, tight |-> {}]
        ELSE [error |-> "", lambdaOpt |-> lambdaOpt,
              tight |-> {a \in DOMAIN slack : isClose(slack[a].value, 0)}]

\* util.getAllSubsets(elements, startSize): the subsets of startSize up to
\* len(elements) - 1 elements; the whole set only when startSize = len(elements)
getAllSubsets(elements, startSize) ==
    IF startSize = Cardinality(elements) THEN {elements}
    ELSE IF startSize > Cardinality(elements) THEN {}
    ELSE {S \in SUBSET elements :
            startSize <= Cardinality(S) /\ Cardinality(S) < Cardinality(elements)}

\* (mutant) the subset test is lost: every active agent counts
coDemandSpeedsAll(v, A) ==
    [a \in DOMAIN A |->
        IF isFinished(v, A, a) THEN A[a]
        ELSE [A[a] EXCEPT !.speed = Cardinality(getActiveAgents(v, A))]]

\* solveVotePSR, lines 327-333: the number of agents whose class is a subset of a's
coDemandSpeeds(v, A) ==
    [a \in DOMAIN A |->
        IF isFinished(v, A, a) THEN A[a]
        ELSE [A[a] EXCEPT !.speed =
                Cardinality({b \in getActiveAgents(v, A) :
                    isSubsetOf(getCurrentChoiceClass(v, A, b), getCurrentChoiceClass(v, A, a))})]]

\* solveVotePSR, lines 337-338
resetSpeeds(A) == [a \in DOMAIN A |-> [A[a] EXCEPT !.speed = 1]]

\* (mutant) the height is the count of the agents, not their fraction
initClassSPSRNoDivision(v, st, choiceClass) ==
    LET active == getActiveAgents(v, st.agents)
        count == Cardinality({a \in active :
                    isSubsetOf(getCurrentChoiceClass(v, st.agents, a), choiceClass)})
        same == {a \in active : getCurrentChoiceClass(v, st.agents, a) = choiceClass}
        height == count * Scale
        T1 == getTower(st.towers, choiceClass)
    IN  IF st.error # "" THEN st
        ELSE IF ~heightOk(height) \/ ~isInInterval(height, 0, Scale)
        THEN [st EXCEPT !.error = "height"]
        ELSE [st EXCEPT !.towers = [T1 EXCEPT ![choiceClass].height = height],
                        !.agents = [a \in DOMAIN st.agents |->
                                      IF a \in same
                                      THEN [st.agents[a] EXCEPT !.height = bound(height, 0, Scale)]
                                      ELSE st.agents[a]]]

\* solveVoteSPSR, lines 356-366: one choice class of the loop over all subsets
initClassSPSR(v, st, choiceClass) ==
    LET active == getActiveAgents(v, st.agents)
        count == Cardinality({a \in active :
                    isSubsetOf(getCurrentChoiceClass(v, st.agents, a), choiceClass)})
        same == {a \in active : getCurrentChoiceClass(v, st.agents, a) = choiceClass}
        height == (count * Scale) \div getAgentCount(v)
        T1 == getTower(st.towers, choiceClass)
    IN  IF st.error # "" THEN st
        ELSE IF ~heightOk(height) \/ ~isInInterval(height, 0, Scale)
        THEN [st EXCEPT !.error = "height"]
        ELSE [st EXCEPT !.towers = [T1 EXCEPT ![choiceClass].height = height],
                        !.agents = [a \in DOMAIN st.agents |->
                                      IF a \in same
                                      THEN [st.agents[a] EXCEPT !.height = bound(height, 0, Scale)]
                                      ELSE st.agents[a]]]

RECURSIVE initSPSR(_, _, _)
initSPSR(v, st, classes) ==
    IF classes = {} THEN st
    ELSE LET cc == CHOOSE c \in classes : \A d \in classes : Cardinality(c) <= Cardinality(d)
         IN  initSPSR(v, initClassSPSR(v, st, cc), classes \ {cc})

\* (mutant) the height constraints of the final LP are lost
findLotteryNoHeights(classHeights) ==
    LET best == Max({m[Choices] : m \in Distributions})
    IN  {m \in Distributions : m[Choices] = best}

\* (mutant) the "Distribution" constraint of the final LP is lost
findLotteryNoDistribution(classHeights) ==
    LET feasible == {m \in MassTable :
                        \A cc \in DOMAIN classHeights : m[cc] >= classHeights[cc]}
        best == Max({m[Choices] : m \in feasible})
    IN  {m \in feasible : m[Choices] = best}

\* util.findLottery, line 67: the status problem.solve returns (and nobody reads)
lotteryStatus(classHeights) ==
    IF \E m \in Distributions : \A cc \in DOMAIN classHeights : m[cc] >= classHeights[cc]
    THEN "Optimal" ELSE "Infeasible"

\* util.findLottery, lines 58-71: the values the variables have after problem.solve.
\* An optimal solution of the final LP (any may be returned) if there is one;
\* the status is not checked, so after an infeasible solve the values are
\* whatever the solver left in the variables
findLottery(classHeights) ==
    LET feasible == {m \in Distributions :
                        \A cc \in DOMAIN classHeights : m[cc] >= classHeights[cc]}
    IN  IF feasible = {} THEN MassTable
        ELSE LET best == Max({m[Choices] : m \in feasible})
             IN  {m \in feasible : m[Choices] = best}

\* society.Lottery.__init__: checkBound on every value, and the sum is close to 1
LotteryOk(distribution) ==
    /\ \A c \in DOMAIN distribution : checkBoundOk(distribution[c], 0, Scale)
    /\ isClose(SumOver([c \in DOMAIN distribution |->
                           checkBound(distribution[c], 0, Scale)], DOMAIN distribution), Scale)

----------------------------------------------------------------------------
(* ssr.py: the tower-centric engine.  st = [agents, towers, error] *)

\* ssr.Tower.setSpeed: raises on a non-zero speed after the freeze, or a negative speed
setSpeedOk(tower, speed) == ~(speed # 0 /\ tower.frozen) /\ ~(speed < 0)

\* ssr.Tower.setFrozen: speed 0, then frozen
setFrozen(tower) == [tower EXCEPT !.speed = 0, !.frozen = TRUE]

\* ssr.Tower.setHeight (ignoreFrozen = False): a height of exactly 1 freezes the tower
setHeightOk(tower, height) ==
    /\ ~(tower.frozen /\ tower.height # height)
    /\ ~(height < 0 \/ Scale < height)

setHeight(tower, height) ==
    IF height = Scale
    THEN [setFrozen(tower) EXCEPT !.height = height]
    ELSE [tower EXCEPT !.height = height]

\* (mutant) a frozen superset tower is pushed like any other
pushTowersFrozenToo(v, st, a) ==
    IF st.error # "" \/ isFinished(v, st.agents, a) THEN st
    ELSE
      LET currentChoiceClass == getCurrentChoiceClass(v, st.agents, a)
          T1 == getTower(st.towers, currentChoiceClass)
          supersets == {subset \in getAllSubsets(getChoices(v),
                                                  Cardinality(currentChoiceClass) + 1) :
                           isSubsetOf(currentChoiceClass, subset)}
          dom == DOMAIN T1 \cup supersets
      IN  IF ~setSpeedOk(T1[currentChoiceClass], T1[currentChoiceClass].speed + 1)
          THEN [st EXCEPT !.error = "speed"]
          ELSE [st EXCEPT !.towers =
                  [cc \in dom |->
                     LET tower == IF cc \in DOMAIN T1 THEN T1[cc] ELSE NewTower
                     IN  IF cc = currentChoiceClass \/ cc \in supersets
                         THEN [tower EXCEPT !.speed = tower.speed + 1]
                         ELSE tower]]

\* SSRState.adjustTowerSpeeds, lines 169-176: one active agent pushes its own
\* tower and the non-frozen towers of the larger subsets getAllSubsets yields
pushTowers(v, st, a) ==
    IF st.error # "" \/ isFinished(v, st.agents, a) THEN st
    ELSE
      LET currentChoiceClass == getCurrentChoiceClass(v, st.agents, a)
          T1 == getTower(st.towers, currentChoiceClass)
          supersets == {subset \in getAllSubsets(getChoices(v),
                                                  Cardinality(currentChoiceClass) + 1) :
                           isSubsetOf(currentChoiceClass, subset)}
          dom == DOMAIN T1 \cup supersets
      IN  IF ~setSpeedOk(T1[currentChoiceClass], T1[currentChoiceClass].speed + 1)
          THEN [st EXCEPT !.error = "speed"]
          ELSE [st EXCEPT !.towers =
                  [cc \in dom |->
                     LET tower == IF cc \in DOMAIN T1 THEN T1[cc] ELSE NewTower
                     IN  IF cc = currentChoiceClass \/ (cc \in supersets /\ ~tower.frozen)
                         THEN [tower EXCEPT !.speed = tower.speed + 1]
                         ELSE tower]]

RECURSIVE pushAll(_, _, _)
pushAll(v, st, order) ==
    IF order = <<>> THEN st
    ELSE pushAll(v, pushTowers(v, st, Head(order)), Tail(order))

\* SSRState.adjustTowerSpeeds
adjustTowerSpeeds(v, st, order) ==
    pushAll(v, [st EXCEPT !.towers = [cc \in DOMAIN st.towers |->
                                         [st.towers[cc] EXCEPT !.speed = 0]]], order)

\* (mutant) a tower of freezingTowers is not frozen
climbTowerNoFreeze(tower, cc, climbingTime, freezingTowers) ==
    IF tower.frozen THEN tower
    ELSE setHeight(tower, bound(tower.height + climbingTime * tower.speed, 0, Scale))

\* SSRState.advance, lines 185-196: one tower of the first loop
climbTower(tower, cc, climbingTime, freezingTowers) ==
    IF tower.frozen THEN tower
    ELSE LET climbedHeight == bound(tower.height + climbingTime * tower.speed, 0, Scale)
             climbed == setHeight(tower, climbedHeight)
         IN  IF cc \in freezingTowers THEN setFrozen(climbed) ELSE climbed

climbTowerOk(tower, climbingTime) ==
    \/ tower.frozen
    \/ /\ isInInterval(tower.height + climbingTime * tower.speed, 0, Scale)
       /\ setHeightOk(tower, bound(tower.height + climbingTime * tower.speed, 0, Scale))

\* (mutant) the agent leaves one frozen tower only
skipFrozenOnce(v, st, a) ==
    IF isFinished(v, st.agents, a) THEN st
    ELSE LET currentChoiceClass == getCurrentChoiceClass(v, st.agents, a)
             T1 == getTower(st.towers, currentChoiceClass)
         IN  IF T1[currentChoiceClass].frozen
             THEN [st EXCEPT !.towers = T1, !.agents[a].cur = st.agents[a].cur + 1]
             ELSE [st EXCEPT !.towers = T1]

\* SSRState.advance, lines 197-200: the agent leaves every frozen tower in a row
RECURSIVE skipFrozen(_, _, _)
skipFrozen(v, st, a) ==
    IF isFinished(v, st.agents, a) THEN st
    ELSE LET currentChoiceClass == getCurrentChoiceClass(v, st.agents, a)
             T1 == getTower(st.towers, currentChoiceClass)
         IN  IF T1[currentChoiceClass].frozen
             THEN skipFrozen(v, [st EXCEPT !.towers = T1,
                                           !.agents[a].cur = st.agents[a].cur + 1], a)
             ELSE [st EXCEPT !.towers = T1]

RECURSIVE skipAll(_, _, _)
skipAll(v, st, order) ==
    IF order = <<>> THEN st
    ELSE skipAll(v, skipFrozen(v, st, Head(order)), Tail(order))

\* SSRState.advance
advanceSSR(v, st, order, climbingTime, freezingTowers) ==
    IF \E cc \in DOMAIN st.towers : ~climbTowerOk(st.towers[cc], climbingTime)
    THEN [st EXCEPT !.error = "height"]
    ELSE
      LET climbed == [st EXCEPT !.towers =
                        [cc \in DOMAIN st.towers |->
                            climbTower(st.towers[cc], cc, climbingTime, freezingTowers)]]
      IN  adjustTowerSpeeds(v, skipAll(v, climbed, order), order)

\* ssr.computeLambda.createConstraints: one constraint per tower, frozen or not
createConstraintsSSR(T) ==
    {[cc |-> cc, height |-> T[cc].height, speed |-> T[cc].speed] : cc \in DOMAIN T}

\* SSRState.getNonFrozenTowers
getNonFrozenTowers(T) == {cc \in DOMAIN T : ~T[cc].frozen}

\* ssr.computeLambda: (lambdaOpt, freezingTowers), or an error
computeLambdaSSR(T, maximumTime) ==
    LET cons == createConstraintsSSR(T)
        lp == LambdaLP(cons, maximumTime)
        lambdaOpt == lp.value
        feasible == FeasibleAt(cons, lambdaOpt)
        slack == [cc \in getNonFrozenTowers(T) |->
                    SlackLP(feasible, lambdaOpt, cc, T[cc].height, T[cc].speed)]
    IN  IF ~checkPulpStatus(lp.status)
        THEN [error |-> "lp", lambdaOpt |-> 0, tight |-> {}]
        ELSE IF \E cc \in DOMAIN slack : ~checkPulpStatus(slack[cc].status)
        THEN [error |-> "lp", lambdaOpt |-> lambdaOpt, tight |-> {}]
        ELSE IF \E cc \in DOMAIN slack : ~isNonnegative(slack[cc].value)
        THEN [error |-> "slack", lambdaOpt |-> lambdaOpt, tight |-> {}]
        ELSE [error |-> "", lambdaOpt |-> lambdaOpt,
              tight |-> {cc \in DOMAIN slack : isClose(slack[cc].value, 0)}]

----------------------------------------------------------------------------
(* The solve calls: solveVoteESR, solveVotePSR, solveVoteSPSR, solveVoteSSR *)

\* the valid populations: every agent ranks all choices in disjoint tie-groups
\* (agents differ by their preference only, so they are listed in one order)
PrefKey(pref) == SumOver([i \in DOMAIN pref |->
                    SumOver([c \in Choices |-> IF c = "a" THEN 1 ELSE IF c = "b" THEN 2 ELSE 4],
                            pref[i]) * 8 ^ (i - 1)], DOMAIN pref)

\* main.py, lines 27-31: the population of the driver
ScenarioVote ==
    [a \in {1, 2, 3} |->
        IF a = 1 THEN <<{"a"}, {"b", "c"}>>
        ELSE IF a = 2 THEN <<{"b"}, {"a"}, {"c"}>>
        ELSE <<{"a", "c"}, {"b"}>>]

Votes ==
    {ScenarioVote} \cup
    {v \in UNION {[S -> Preferences] : S \in {1..n : n \in AgentIds}} :
        \A a \in DOMAIN v : a + 1 \in DOMAIN v => PrefKey(v[a]) <= PrefKey(v[a + 1])}

\* a solve call is no call of the other entry points of the library, and conversely
NoCall == [op |-> "none"]
NoResult == [status |-> "none"]

NoTowers == [cc \in {} |-> NewTower]
NoLottery == [c \in {} |-> 0]

Current == [agents |-> agents, towers |-> towers, error |-> ""]

\* SRState.__init__ / SSRState.__init__
Init ==
    /\ vote \in Votes
    /\ variant \in Variants
    /\ pc = "start"
    /\ error = ""
    /\ agents = [a \in DOMAIN vote |-> NewAgentData]
    /\ towers = NoTowers
    /\ climbTime = 0
    /\ tight = {}
    /\ iterations = 0
    /\ lottery = NoLottery
    /\ call = NoCall
    /\ result = NoResult

\* an exception leaves the solve call: no result, the state is dropped as it is
Raise(kind) ==
    /\ pc' = "error"
    /\ error' = kind
    /\ UNCHANGED <<vote, variant, agents, towers, climbTime, tight, iterations, lottery, call, result>>

\* solveVoteESR, line 310: no initialisation step
StartESR ==
    /\ pc = "start" /\ variant = "ESR"
    /\ pc' = "loop"
    /\ UNCHANGED <<vote, variant, error, agents, towers, climbTime, tight, iterations, lottery, call, result>>

\* solveVotePSR, lines 325-338
StartPSR ==
    /\ pc = "start" /\ variant = "PSR"
    /\ \E order \in Orders(DOMAIN vote) :
         LET sped == [Current EXCEPT !.agents = coDemandSpeeds(vote, agents)]
             st == advanceSR(vote, sped, order, Scale \div getAgentCount(vote), {})
         IN  IF st.error # "" THEN Raise(st.error)
             ELSE /\ agents' = resetSpeeds(st.agents)
                  /\ towers' = st.towers
                  /\ pc' = "loop"
                  /\ UNCHANGED <<vote, variant, error, climbTime, tight, iterations, lottery, call, result>>

\* solveVoteSPSR, lines 352-366
StartSPSR ==
    /\ pc = "start" /\ variant = "SPSR"
    /\ LET st == initSPSR(vote, Current, getAllSubsets(Choices, 1))
       IN  IF st.error # "" THEN Raise(st.error)
           ELSE /\ agents' = st.agents
                /\ towers' = st.towers
                /\ pc' = "loop"
                /\ UNCHANGED <<vote, variant, error, climbTime, tight, iterations, lottery, call, result>>

\* solveVoteSSR, lines 265-266
StartSSR ==
    /\ pc = "start" /\ variant = "SSR"
    /\ \E order \in Orders(DOMAIN vote) :
         LET st == adjustTowerSpeeds(vote, Current, order)
         IN  IF st.error # "" THEN Raise(st.error)
             ELSE /\ agents' = st.agents
                  /\ towers' = st.towers
                  /\ pc' = "loop"
                  /\ UNCHANGED <<vote, variant, error, climbTime, tight, iterations, lottery, call, result>>

\* one iteration of the main loop of solveVoteESR / solveVotePSR / solveVoteSPSR
StepSR ==
    /\ pc = "loop" /\ variant # "SSR"
    /\ ~stateIsFinished(vote, agents)
    /\ iterations < MaxIterations
    /\ \E r \in {computeLambdaSR(vote, agents, towers, Scale)} :
           IF r.error # "" THEN Raise(r.error)
           ELSE \E order \in Orders(DOMAIN vote) :
                  LET st == advanceSR(vote, Current, order, r.lambdaOpt, r.tight)
                  IN  IF st.error # "" THEN Raise(st.error)
                      ELSE /\ agents' = st.agents
                           /\ towers' = st.towers
                           /\ climbTime' = r.lambdaOpt
                           /\ tight' = r.tight
                           /\ iterations' = iterations + 1
                           /\ UNCHANGED <<vote, variant, pc, error, lottery, call, result>>

\* one iteration of the main loop of solveVoteSSR
StepSSR ==
    /\ pc = "loop" /\ variant = "SSR"
    /\ ~stateIsFinished(vote, agents)
    /\ iterations < MaxIterations
    /\ \E r \in {computeLambdaSSR(towers, Scale)} :
           IF r.error # "" THEN Raise(r.error)
           ELSE \E order \in Orders(DOMAIN vote) :
                  LET st == advanceSSR(vote, Current, order, r.lambdaOpt, r.tight)
                  IN  IF st.error # "" THEN Raise(st.error)
                      ELSE /\ agents' = st.agents
                           /\ towers' = st.towers
                           /\ climbTime' = r.lambdaOpt
                           /\ tight' = r.tight
                           /\ iterations' = iterations + 1
                           /\ UNCHANGED <<vote, variant, pc, error, lottery, call, result>>

\* the height map handed to findLottery: sr.py line 315, ssr.py lines 270-272
finalClassHeights ==
    IF variant = "SSR"
    THEN [cc \in DOMAIN towers |-> towers[cc].height]
    ELSE [cc \in getCurrentClassHeights(towers) |-> towers[cc].height]

\* the return of the solve call: findLottery and the Lottery it constructs
Finish ==
    /\ pc = "loop"
    /\ stateIsFinished(vote, agents)
    /\ \E optimal \in {findLottery(finalClassHeights)} :
           \E m \in optimal :
              LET distribution == [c \in Choices |-> m[{c}]]
              IN  IF ~LotteryOk(distribution) THEN Raise("lottery")
                  ELSE /\ lottery' = [c \in Choices |->
                                       checkBound(distribution[c], 0, Scale)]
                       /\ pc' = "done"
                       /\ UNCHANGED <<vote, variant, error, agents, towers, climbTime, tight,
                                      iterations, call, result>>

Next ==
    \/ StartESR
    \/ StartPSR
    \/ StartSPSR
    \/ StartSSR
    \/ StepSR
    \/ StepSSR
    \/ Finish

Spec == Init /\ [][Next]_vars

----------------------------------------------------------------------------
(* The other entry points of the library, each called once on its own:
   call holds the operation and its arguments, pc is "call" until the
   operation returns ("returned", result holds the value) or raises ("raised") *)

\* the keys of the dict a caller passes
DictAgents == {1, 2}

MaxClasses == 2

\* the tie-groups a caller writes down: the non-empty sets that leave an outcome out
RawClasses == (SUBSET Choices) \ {{}, Choices}

\* a list of tie-groups as a caller writes it: nothing keeps it complete or disjoint
RawPreferences == UNION {[1..n -> RawClasses] : n \in 1..MaxClasses}

RawAgents == UNION {[1..n -> RawPreferences] : n \in DictAgents}

Returned(value) == [status |-> "returned", error |-> "", value |-> value]
Raised(kind) == [status |-> "raised", error |-> kind, value |-> <<>>]

\* Vote.__init__, lines 257-260: every choice of every agent
voteChoices(agentPreferences) ==
    UNION {UNION Range(agentPreferences[a]) : a \in DOMAIN agentPreferences}

\* Vote.__init__: the choices are gathered from the agents, then every choice of
\* every agent is looked up in them
newVote(agentPreferences) ==
    LET choices == voteChoices(agentPreferences)
    IN  IF \E a \in DOMAIN agentPreferences :
              \E choiceClass \in Range(agentPreferences[a]) :
                 \E choice \in choiceClass : choice \notin choices
        THEN Raised("incomplete")
        ELSE Returned([choices |-> choices, agents |-> agentPreferences])

\* (mutant) a tie-group counts as a duplicate only if all of it was listed before
isdisjointUnlessInside(agentChoices, choiceClass) ==
    ~(choiceClass \subseteq agentChoices)

\* parseVoteFromDict, line 66: agentChoices.isdisjoint(choiceClass)
isdisjoint(agentChoices, choiceClass) == agentChoices \cap choiceClass = {}

\* (mutant) the difference is taken the wrong way round
missingChoicesReversed(allChoices, agentChoices) == agentChoices \ allChoices

\* parseVoteFromDict, line 73: allChoices.difference(agentChoices)
missingChoices(allChoices, agentChoices) == allChoices \ agentChoices

\* parseVoteFromDict, lines 63-79, for one agent
parseAgent(choiceClasses, allChoices, addMissingChoices, removeDuplicateChoices) ==
    LET before(i) == UNION {choiceClasses[j] : j \in 1..(i - 1)}
        duplicate == \E i \in DOMAIN choiceClasses : ~isdisjoint(before(i), choiceClasses[i])
        classes == [i \in DOMAIN choiceClasses |-> choiceClasses[i] \ before(i)]
        agentChoices == UNION Range(classes)
        diff == missingChoices(allChoices, agentChoices)
    IN  IF duplicate /\ ~removeDuplicateChoices THEN [error |-> "Duplicate", classes |-> <<>>]
        ELSE IF diff = {} THEN [error |-> "", classes |-> classes]
        ELSE IF addMissingChoices THEN [error |-> "", classes |-> Append(classes, diff)]
        ELSE [error |-> "Missing", classes |-> <<>>]

\* parseVoteFromDict
parseVoteFromDict(choiceDict, addMissingChoices, removeDuplicateChoices) ==
    LET allChoices == voteChoices(choiceDict)
        parsed == [a \in DOMAIN choiceDict |->
                     parseAgent(choiceDict[a], allChoices, addMissingChoices,
                                removeDuplicateChoices)]
        failed == {a \in DOMAIN choiceDict : parsed[a].error # ""}
    IN  IF failed # {}
        THEN Raised(parsed[CHOOSE a \in failed : \A b \in failed : a <= b].error)
        ELSE newVote([a \in DOMAIN choiceDict |-> parsed[a].classes])

\* the heights a caller can commit to a tower: none, half, all
HeightSamples == {0, Scale \div 2, Scale}

\* the height maps a caller can pass: a height for the tower of every single outcome
ClassHeights == [{{c} : c \in Choices} -> HeightSamples]

\* util.findLottery, lines 69-72: the Lottery built from the values of the variables
newLottery(m) ==
    LET distribution == [c \in Choices |-> m[{c}]]
    IN  IF LotteryOk(distribution)
        THEN Returned([c \in Choices |-> checkBound(distribution[c], 0, Scale)])
        ELSE Raised("lottery")

\* the population the two advance operations are called on: two agents of the driver's
AdvanceVote == [a \in {1, 2} |-> ScenarioVote[a]]

\* the speeds setAgentSpeed has given an agent
SpeedSamples == {1, 2}

\* the agent records of an SRState: a cursor, a height, a speed (a finished agent
\* has height 0)
SRAgentData ==
    {A \in [DOMAIN AdvanceVote ->
              [cur : 1..(MaxClasses + 2), height : HeightSamples, speed : SpeedSamples]] :
        \A a \in DOMAIN A :
            /\ A[a].cur <= Len(AdvanceVote[a]) + 1
            /\ isFinished(AdvanceVote, A, a) => A[a].height = 0 /\ A[a].speed = 1}

\* the towers of an SRState: one per class an agent stands on or has left, each
\* at least as high as the agents that stand on it (tryClimb raised it with them)
SRTowers(A) ==
    LET active == getActiveAgents(AdvanceVote, A)
        classes == UNION {{AdvanceVote[a][i] :
                              i \in 1..Min({A[a].cur, Len(AdvanceVote[a])})} : a \in DOMAIN A}
        standing(cc) == {a \in active : getCurrentChoiceClass(AdvanceVote, A, a) = cc}
    IN  {[cc \in DOMAIN h |-> [NewTower EXCEPT !.height = h[cc]]] :
            h \in {g \in [classes -> HeightSamples] :
                      \A cc \in classes : \A a \in standing(cc) : A[a].height <= g[cc]}}

\* the cursors of an SSRState
SSRAgentData ==
    {A \in [DOMAIN AdvanceVote -> [cur : 1..(MaxClasses + 2), height : {0}, speed : {1}]] :
        \A a \in DOMAIN A : A[a].cur <= Len(AdvanceVote[a]) + 1}

\* the towers that froze before the call: those of the tie-groups the agents have
\* left (a cursor moves on only from a frozen tower), and any of those of the
\* tie-groups still ahead of them on which no agent stands
SSRFrozen(A) ==
    LET active == getActiveAgents(AdvanceVote, A)
        current == {getCurrentChoiceClass(AdvanceVote, A, a) : a \in active}
        left == UNION {{AdvanceVote[a][i] : i \in 1..(A[a].cur - 1)} : a \in DOMAIN A}
        ahead == UNION {{AdvanceVote[a][i] : i \in (A[a].cur + 1)..Len(AdvanceVote[a])} :
                           a \in DOMAIN A}
    IN  {(left \cup F) \ current : F \in SUBSET ahead}

\* the towers of an SSRState with the speeds adjustTowerSpeeds gives them, the
\* frozen ones half-way up
SSRBase(A, frozenTowers) ==
    adjustTowerSpeeds(AdvanceVote,
                      [agents |-> A,
                       towers |-> [cc \in frozenTowers |->
                                     [setFrozen(NewTower) EXCEPT !.height = Scale \div 2]],
                       error |-> ""],
                      <<1, 2>>).towers

\* ... the towers that climb at any height below 1
SSRTowers(A) ==
    UNION {LET base == SSRBase(A, frozenTowers)
               climbing == {cc \in DOMAIN base : base[cc].speed > 0}
           IN  {[cc \in DOMAIN base |->
                   IF cc \in climbing THEN [base[cc] EXCEPT !.height = h[cc]] ELSE base[cc]] :
                  h \in [climbing -> {0, Scale \div 2}]} :
           frozenTowers \in SSRFrozen(A)}

\* the sets of towers a lambda-step may find tight: up to two of the non-frozen
MaxFreezing == 2

FreezingTowers(T) ==
    {F \in SUBSET getNonFrozenTowers(T) : Cardinality(F) <= MaxFreezing}

\* SRState.advance as a call: the state it leaves, or the error
callAdvanceSR(st, order, climbingTime, bouncingAgents) ==
    LET after == advanceSR(AdvanceVote, st, order, climbingTime, bouncingAgents)
    IN  IF after.error # "" THEN Raised(after.error)
        ELSE Returned([agents |-> after.agents, towers |-> after.towers])

\* SSRState.advance as a call: the state it leaves, or the error
callAdvanceSSR(st, order, climbingTime, freezingTowers) ==
    LET after == advanceSSR(AdvanceVote, st, order, climbingTime, freezingTowers)
    IN  IF after.error # "" THEN Raised(after.error)
        ELSE Returned([agents |-> after.agents, towers |-> after.towers])

\* a population over four outcomes, for the calls of adjustTowerSpeeds
SpeedVote ==
    [a \in {1, 2} |->
        IF a = 1 THEN <<{"a"}, {"b", "c"}, {"d"}>> ELSE <<{"a", "b"}, {"c", "d"}>>]

\* the cursors of the SSRState adjustTowerSpeeds is called on
SpeedAgentData ==
    {A \in [DOMAIN SpeedVote -> [cur : 1..(MaxClasses + 2), height : {0}, speed : {1}]] :
        \A a \in DOMAIN A : A[a].cur <= Len(SpeedVote[a]) + 1}

\* the towers that may have frozen before the call
FrozenSamples == {{"a"}, {"a", "b"}, {"a", "b", "c"}, {"b", "c", "d"}, getChoices(SpeedVote)}

\* its towers: none yet (the call of solveVoteSSR, line 265), or one per non-empty
\* subset, each with the speed an earlier call left and some of them frozen
SpeedTowers ==
    {NoTowers} \cup
    {[cc \in (SUBSET getChoices(SpeedVote)) \ {{}} |->
        IF cc \in F THEN setFrozen(NewTower) ELSE [NewTower EXCEPT !.speed = 1]] :
       F \in SUBSET FrozenSamples}

\* SSRState.adjustTowerSpeeds as a call: the state it leaves, or the error
callAdjustTowerSpeeds(st, order) ==
    LET after == adjustTowerSpeeds(SpeedVote, st, order)
    IN  IF after.error # "" THEN Raised(after.error)
        ELSE Returned([agents |-> after.agents, towers |-> after.towers])

\* the full assignments of the objects to the agents: each agent one object,
\* each object one agent (parser.toAssignmentVote builds them from permutations)
Assignments ==
    {asg \in [AgentIds -> Choices] : \A a, b \in AgentIds : a # b => asg[a] # asg[b]}

\* the probabilities a lottery over assignments takes: quarters
ProbabilitySamples == {(k * Scale) \div 4 : k \in 0..4}

\* the lotteries over the full assignments
AssignmentDistributions ==
    {p \in [Assignments -> ProbabilitySamples] : SumOver(p, Assignments) = Scale}

\* (mutant) the probability is assigned, not added: one assignment's remains
marginalOfOne(assignments, agent, obj) ==
    LET pairing == {asg \in DOMAIN assignments : asg[agent] = obj}
    IN  IF pairing = {} THEN 0
        ELSE assignments[CHOOSE asg \in pairing : TRUE]

\* AssignmentLottery.__init__, lines 384-388: agentLotteries[agent][obj] += probability
\* over the assignments that pair the agent with the object
marginal(assignments, agent, obj) ==
    SumOver(assignments, {asg \in DOMAIN assignments : asg[agent] = obj})

\* AssignmentLottery.__init__ on a Lottery over assignments
newAssignmentLottery(assignments) ==
    LET objects == UNION {Range(asg) : asg \in DOMAIN assignments}
        assigned == UNION {DOMAIN asg : asg \in DOMAIN assignments}
        agentLotteries == [agent \in assigned |->
                             [obj \in objects |-> marginal(assignments, agent, obj)]]
    IN  IF \E asg \in DOMAIN assignments :
              \/ Cardinality(objects) # Cardinality(DOMAIN asg)
              \/ Cardinality(assigned) # Cardinality(DOMAIN asg)
        THEN Raised("assert")
        ELSE IF \E agent \in assigned : ~LotteryOk(agentLotteries[agent])
        THEN Raised("lottery")
        ELSE Returned([agent \in assigned |->
                         [obj \in objects |-> checkBound(agentLotteries[agent][obj], 0, Scale)]])

\* a bound so large that the relative tolerance spans two units of 1/Scale
BigBound == 2 * TolInv

\* the interval bounds a caller can pass to checkBound
BoundSamples == {0, Scale, BigBound}

\* the values a caller can pass: up to three units off a bound
ValueSamples == UNION {(x - 3)..(x + 3) : x \in BoundSamples}

\* SolverSettings.checkBound as a call (isInInterval raises when a > b)
callCheckBound(value, a, b) ==
    IF a > b THEN Raised("order")
    ELSE IF checkBoundOk(value, a, b) THEN Returned(checkBound(value, a, b))
    ELSE Raised("bounds")

\* the tolerances a caller can pass, in units of the default tolerance
Tolerances == -1..2

\* (mutant) the tolerance 0 is accepted
toleranceOkZero(tolerance) == ~(tolerance < 0)

\* SolverSettings.setAbsoluteTolerance / setRelativeTolerance: if tolerance <= 0: raise
toleranceOk(tolerance) == ~(tolerance <= 0)

\* SolverSettings.__init__
newSolverSettings(solverIsLpSolver, absoluteTolerance, relativeTolerance) ==
    IF ~toleranceOk(absoluteTolerance) THEN Raised("Tolerance")
    ELSE IF ~toleranceOk(relativeTolerance) THEN Raised("Tolerance")
    ELSE IF ~solverIsLpSolver THEN Raised("Solver")
    ELSE Returned([absoluteTolerance |-> absoluteTolerance,
                   relativeTolerance |-> relativeTolerance])

VoteCalls == {[op |-> "Vote", agents |-> ags] : ags \in RawAgents}

ParseCalls ==
    {[op |-> "parseVoteFromDict", choiceDict |-> d, addMissingChoices |-> add,
      removeDuplicateChoices |-> rem] : d \in RawAgents, add \in BOOLEAN, rem \in BOOLEAN}

FindLotteryCalls == {[op |-> "findLottery", classHeights |-> h] : h \in ClassHeights}

\* SRState.advance(climbingTime, bouncingAgents) on the state (A, T)
AdvanceSRCall(A, T, dt, B) ==
    [op |-> "SRState.advance", agents |-> A, towers |-> T,
     climbingTime |-> dt, bouncingAgents |-> B]

\* SSRState.advance(climbingTime, freezingTowers) on the state (A, T)
AdvanceSSRCall(A, T, dt, F) ==
    [op |-> "SSRState.advance", agents |-> A, towers |-> T,
     climbingTime |-> dt, freezingTowers |-> F]

AdjustTowerSpeedsCalls ==
    {[op |-> "SSRState.adjustTowerSpeeds", agents |-> A, towers |-> T] :
        A \in SpeedAgentData, T \in SpeedTowers}

CheckBoundCalls ==
    {[op |-> "checkBound", value |-> v, a |-> a, b |-> b] :
        v \in ValueSamples, a \in BoundSamples, b \in BoundSamples}

AssignmentLotteryCalls ==
    {[op |-> "AssignmentLottery", assignments |-> p] : p \in AssignmentDistributions}

SettingsCalls ==
    {[op |-> "SolverSettings", solverIsLpSolver |-> ok, absoluteTolerance |-> abs,
      relativeTolerance |-> rel] : ok \in BOOLEAN, abs \in Tolerances, rel \in Tolerances}

ApiInit ==
    /\ \/ call \in VoteCalls \cup ParseCalls \cup SettingsCalls \cup FindLotteryCalls
                    \cup AssignmentLotteryCalls
                    \cup AdjustTowerSpeedsCalls \cup CheckBoundCalls
       \/ \E A \in SRAgentData : \E T \in SRTowers(A) : \E dt \in HeightSamples :
            \E B \in SUBSET DOMAIN AdvanceVote : call = AdvanceSRCall(A, T, dt, B)
       \/ \E A \in SSRAgentData : \E T \in SSRTowers(A) : \E dt \in HeightSamples :
            \E F \in FreezingTowers(T) : call = AdvanceSSRCall(A, T, dt, F)
    /\ result = NoResult
    /\ pc = "call"
    /\ error = ""
    /\ vote = << >>
    /\ variant = "none"
    /\ agents = << >>
    /\ towers = NoTowers
    /\ climbTime = 0
    /\ tight = {}
    /\ iterations = 0
    /\ lottery = NoLottery

\* the call returns or raises
Return(r) ==
    /\ result' = r
    /\ pc' = r.status
    /\ error' = r.error
    /\ UNCHANGED <<vote, variant, agents, towers, climbTime, tight, iterations, lottery, call>>

CallVote ==
    /\ pc = "call" /\ call.op = "Vote"
    /\ Return(newVote(call.agents))

CallParseVoteFromDict ==
    /\ pc = "call" /\ call.op = "parseVoteFromDict"
    /\ Return(parseVoteFromDict(call.choiceDict, call.addMissingChoices,
                                call.removeDuplicateChoices))

CallSolverSettings ==
    /\ pc = "call" /\ call.op = "SolverSettings"
    /\ Return(newSolverSettings(call.solverIsLpSolver, call.absoluteTolerance,
                                call.relativeTolerance))

CallFindLottery ==
    /\ pc = "call" /\ call.op = "findLottery"
    /\ \E m \in findLottery(call.classHeights) : Return(newLottery(m))

CallAdvanceSR ==
    /\ pc = "call" /\ call.op = "SRState.advance"
    /\ \E order \in Orders(DOMAIN AdvanceVote) :
         Return(callAdvanceSR([agents |-> call.agents, towers |-> call.towers, error |-> ""],
                              order, call.climbingTime, call.bouncingAgents))

CallAdvanceSSR ==
    /\ pc = "call" /\ call.op = "SSRState.advance"
    /\ \E order \in Orders(DOMAIN AdvanceVote) :
         Return(callAdvanceSSR([agents |-> call.agents, towers |-> call.towers, error |-> ""],
                               order, call.climbingTime, call.freezingTowers))

CallAdjustTowerSpeeds ==
    /\ pc = "call" /\ call.op = "SSRState.adjustTowerSpeeds"
    /\ \E order \in Orders(DOMAIN SpeedVote) :
         Return(callAdjustTowerSpeeds([agents |-> call.agents, towers |-> call.towers,
                                       error |-> ""], order))

CallCheckBound ==
    /\ pc = "call" /\ call.op = "checkBound"
    /\ Return(callCheckBound(call.value, call.a, call.b))

CallAssignmentLottery ==
    /\ pc = "call" /\ call.op = "AssignmentLottery"
    /\ Return(newAssignmentLottery(call.assignments))

ApiNext ==
    \/ CallVote
    \/ CallParseVoteFromDict
    \/ CallSolverSettings
    \/ CallFindLottery
    \/ CallAdvanceSR
    \/ CallAdvanceSSR
    \/ CallAssignmentLottery
    \/ CallAdjustTowerSpeeds
    \/ CallCheckBound

ApiSpec == ApiInit /\ [][ApiNext]_vars

----------------------------------------------------------------------------
(* Properties *)

Mass(distribution, cc) == SumOver(distribution, cc)

\* C1: every solve call on a valid population returns a Lottery, and the
\* Lottery gives every outcome a probability in [0,1], the probabilities
\* summing to 1 within tolerance.
C1_LotteryIsDistribution ==
    /\ pc # "error"
    /\ pc = "done" =>
         /\ DOMAIN lottery = Choices
         /\ \A c \in Choices : 0 <= lottery[c] /\ lottery[c] <= Scale
         /\ isClose(Mass(lottery, Choices), Scale)

\* a Lottery was returned that splits the probability between outcomes
C1_Witness ==
    /\ pc = "done"
    /\ \E c \in Choices : 0 < lottery[c] /\ lottery[c] < Scale

\* C2: across every step (the variants' initialisation and every advance) each
\* tower persists and its height does not decrease.
C2_HeightsNonDecreasing ==
    [][\A cc \in DOMAIN towers :
          cc \in DOMAIN towers' /\ towers'[cc].height >= towers[cc].height]_vars

\* after two advances, an active agent stands below the height of its tower
C2_Witness ==
    /\ iterations >= 2
    /\ \E a \in getActiveAgents(vote, agents) :
         LET cc == getCurrentChoiceClass(vote, agents, a)
         IN  cc \in DOMAIN towers /\ 0 < agents[a].height
             /\ agents[a].height < towers[cc].height

\* C3: at the start of every lambda-step the heights of the existing towers are
\* jointly feasible: some distribution (nonnegative, total at most 1) gives
\* every tower's outcome set at least the tower's height.
C3_CommittedHeightsFeasible ==
    (pc = "loop" /\ ~stateIsFinished(vote, agents)) =>
        \E m \in Distributions : \A cc \in DOMAIN towers : m[cc] >= towers[cc].height

\* a lambda-step starts with two disjoint towers that share the whole probability
C3_Witness ==
    /\ pc = "loop" /\ ~stateIsFinished(vote, agents) /\ iterations >= 1
    /\ \E c1, c2 \in DOMAIN towers :
         /\ c1 \cap c2 = {}
         /\ towers[c1].height > 0 /\ towers[c2].height > 0
         /\ towers[c1].height + towers[c2].height = Scale

\* what one step leaves behind when the agents are visited in the given order
StepOutcome(order) ==
    IF pc = "start" /\ variant = "PSR"
    THEN advanceSR(vote, [Current EXCEPT !.agents = coDemandSpeeds(vote, agents)], order,
                   Scale \div getAgentCount(vote), {})
    ELSE IF pc = "start" /\ variant = "SSR"
    THEN adjustTowerSpeeds(vote, Current, order)
    ELSE IF variant = "SSR"
    THEN LET r == computeLambdaSSR(towers, Scale)
         IN  [step |-> r, after |-> advanceSSR(vote, Current, order, r.lambdaOpt, r.tight)]
    ELSE LET r == computeLambdaSR(vote, agents, towers, Scale)
         IN  [step |-> r, after |-> advanceSR(vote, Current, order, r.lambdaOpt, r.tight)]

StepPending ==
    \/ pc = "start" /\ variant \in {"PSR", "SSR"}
    \/ pc = "loop" /\ ~stateIsFinished(vote, agents)

\* C4: from every reachable state the next step (its advance time, its tight
\* set, the towers and the agents it leaves) is the same whatever order the
\* agents are iterated in, so two solves of one population agree step by step.
C4_OrderIndependent ==
    StepPending => Cardinality({StepOutcome(order) : order \in Orders(DOMAIN vote)}) = 1

\* two agents are about to climb the same tower from different heights
C4_Witness ==
    /\ pc = "loop"
    /\ \E a, b \in getActiveAgents(vote, agents) :
         /\ getCurrentChoiceClass(vote, agents, a) = getCurrentChoiceClass(vote, agents, b)
         /\ agents[a].height < agents[b].height

TieGroups(v) == UNION {Range(v[a]) : a \in DOMAIN v}

TieGroupCount(v) == SumOver([a \in DOMAIN v |-> Len(v[a])], DOMAIN v)

\* C5 as stated: the agent-centric loop takes at most as many iterations as
\* there are distinct tie-groups across the agents' preferences.
C5_DistinctTieGroupBound ==
    variant # "SSR" => iterations <= Cardinality(TieGroups(vote))

\* C5, amended: the agent-centric loop takes at most as many iterations as the
\* agents' preferences have tie-groups in total (each agent's counted).
C5_TieGroupCountBound ==
    variant # "SSR" => iterations <= TieGroupCount(vote)

\* the loop has finished after more iterations than there are distinct tie-groups
C5_Witness ==
    /\ variant # "SSR" /\ pc = "loop" /\ stateIsFinished(vote, agents)
    /\ iterations > Cardinality(TieGroups(vote))

\* C6: the tower-centric loop takes at most as many iterations as there are
\* outcome subsets for which a tower was created during the run.
C6_TowerCountBound ==
    variant = "SSR" => iterations <= Cardinality(DOMAIN towers)

\* the tower-centric loop has finished after several iterations
C6_Witness ==
    /\ variant = "SSR" /\ pc = "loop" /\ stateIsFinished(vote, agents)
    /\ iterations >= 4

\* C7: a frozen tower of the tower-centric engine stays frozen, keeps its
\* height, and has speed 0 from then on.
C7_FrozenIsFinal ==
    [][\A cc \in DOMAIN towers :
          towers[cc].frozen =>
             /\ cc \in DOMAIN towers'
             /\ towers'[cc].frozen
             /\ towers'[cc].height = towers[cc].height
             /\ towers'[cc].speed = 0]_vars

\* an active agent stands right below a tower that froze before reaching height 1
C7_Witness ==
    /\ variant = "SSR" /\ pc = "loop" /\ iterations >= 2
    /\ \E a \in getActiveAgents(vote, agents) : \E cc \in DOMAIN towers :
         /\ towers[cc].frozen /\ towers[cc].height < Scale
         /\ isSubsetOf(getCurrentChoiceClass(vote, agents, a), cc)
         /\ Cardinality(cc) = Cardinality(getCurrentChoiceClass(vote, agents, a)) + 1

\* C8: the lottery extracted from the final height map gives every tower of the
\* map at least its height (up to the tolerance).
C8_LotteryCoversHeights ==
    pc = "done" =>
        \A cc \in DOMAIN finalClassHeights :
            isNonnegative(Mass(lottery, cc) - finalClassHeights[cc])

\* a lottery was extracted that meets one tower's height exactly and exceeds another's
C8_Witness ==
    /\ pc = "done"
    /\ \E c1, c2 \in DOMAIN finalClassHeights :
         /\ finalClassHeights[c1] > 0 /\ Mass(lottery, c1) = finalClassHeights[c1]
         /\ Mass(lottery, c2) > finalClassHeights[c2]

IsScenario == vote = ScenarioVote

\* C9: on the population of the driver (agent 1: a, then b and c tied; agent 2:
\* b, a, c; agent 3: a and c tied, then b) no variant raises, the main loop of
\* every variant comes to its end (it is never still running at the iteration
\* cap), and the lottery returned sums to 1 and gives every tower at least its
\* height.
C9_Scenario ==
    IsScenario =>
        /\ pc # "error"
        /\ (pc = "loop" /\ ~stateIsFinished(vote, agents)) => iterations < MaxIterations
        /\ pc = "done" =>
             /\ isClose(Mass(lottery, Choices), Scale)
             /\ \A cc \in DOMAIN towers :
                  isNonnegative(Mass(lottery, cc) - towers[cc].height)

\* a variant has returned a lottery for the population of the driver
C9_Witness ==
    /\ IsScenario /\ pc = "done" /\ iterations >= 3
    /\ \E cc \in DOMAIN towers : towers[cc].height > 0 /\ Mass(lottery, cc) >= towers[cc].height

\* C10: every tower height and every agent height is in [0, 1] in every state,
\* and no call raises for a height outside that interval.
C10_HeightsInUnitInterval ==
    /\ \A cc \in DOMAIN towers : 0 <= towers[cc].height /\ towers[cc].height <= Scale
    /\ \A a \in DOMAIN agents : 0 <= agents[a].height /\ agents[a].height <= Scale
    /\ ~(pc = "error" /\ error = "height")

\* a tower stands at height 1 while an agent is strictly between 0 and 1
C10_Witness ==
    /\ pc = "loop"
    /\ \E cc \in DOMAIN towers : towers[cc].height = Scale
    /\ \E a \in DOMAIN agents : 0 < agents[a].height /\ agents[a].height < Scale

\* the outcomes an agent's preference covers
Covered(preference) == UNION Range(preference)

\* some agent's preference does not cover all the outcomes the agents list
Incomplete(agentPreferences) ==
    \E a \in DOMAIN agentPreferences :
        Covered(agentPreferences[a]) # voteChoices(agentPreferences)

\* C11 as stated: constructing a Vote raises whenever some agent's preference
\* does not cover exactly the outcomes that appear in any agent's preference.
C11_IncompleteVoteRaises ==
    (call.op = "Vote" /\ pc # "call" /\ Incomplete(call.agents)) => pc = "raised"

\* C12: parseVoteFromDict with addMissingChoices = False raises, and returns no
\* vote, whenever some agent's preference omits an outcome another agent lists.
C12_MissingChoicesRaise ==
    (/\ call.op = "parseVoteFromDict" /\ pc # "call"
     /\ ~call.addMissingChoices
     /\ Incomplete(call.choiceDict))
        => pc = "raised" /\ result.value = << >>

\* the call raised for the missing outcome of an agent without duplicates
C12_Witness ==
    /\ call.op = "parseVoteFromDict" /\ pc = "raised" /\ error = "Missing"
    /\ ~call.addMissingChoices /\ ~call.removeDuplicateChoices
    /\ Incomplete(call.choiceDict)

\* C13 as stated, for the final LP: when the status of the lottery-extraction LP
\* is not optimal, findLottery raises and returns no lottery.
C13_NonOptimalLotteryRaises ==
    (/\ call.op = "findLottery" /\ pc # "call"
     /\ lotteryStatus(call.classHeights) # "Optimal")
        => pc = "raised"

\* a projected height that lies outside [0, 1] by more than the tolerance
Outside(projected) ==
    \/ projected < 0 /\ ~isClose(projected, 0)
    \/ projected > Scale /\ ~isClose(Scale, projected)

Clamped(projected) == Max({0, Min({projected, Scale})})

\* height + dt * speed of the agent (agent-centric) or of the tower (tower-centric)
Projected(entity) == entity.height + call.climbingTime * entity.speed

\* C14: advance raises when the projected height of an active agent (agent-centric
\* engine) or of a non-frozen tower (tower-centric engine) lies outside [0, 1] by
\* more than the tolerance; otherwise it returns, and the height it uses is the
\* projected height clamped into [0, 1].
C14_AdvanceChecksProjectedHeight ==
    /\ (call.op = "SRState.advance" /\ pc # "call") =>
         LET active == getActiveAgents(AdvanceVote, call.agents)
         IN  IF \E a \in active : Outside(Projected(call.agents[a]))
             THEN pc = "raised"
             ELSE /\ pc = "returned"
                  /\ \A a \in active :
                       LET cc == getCurrentChoiceClass(AdvanceVote, call.agents, a)
                           climbed == Clamped(Projected(call.agents[a]))
                       IN  /\ result.value.towers[cc].height
                                = Max({call.towers[cc].height} \cup
                                      {Clamped(Projected(call.agents[b])) :
                                         b \in {d \in active :
                                                  getCurrentChoiceClass(AdvanceVote,
                                                                        call.agents, d) = cc}})
                           /\ a \notin call.bouncingAgents =>
                                result.value.agents[a].height = climbed
    /\ (call.op = "SSRState.advance" /\ pc # "call") =>
         LET moving == getNonFrozenTowers(call.towers)
         IN  IF \E cc \in moving : Outside(Projected(call.towers[cc]))
             THEN pc = "raised"
             ELSE /\ pc = "returned"
                  /\ \A cc \in moving :
                       result.value.towers[cc].height = Clamped(Projected(call.towers[cc]))

\* an advance by a positive time raised for a height beyond 1
C14_Witness ==
    /\ call.op \in {"SRState.advance", "SSRState.advance"}
    /\ pc = "raised" /\ error = "height" /\ call.climbingTime < Scale

\* the entities the lambda-step pushes: the active agents (agent-centric engine),
\* the non-frozen towers (tower-centric engine), each with its outcome set
Entities ==
    IF variant = "SSR"
    THEN {[id |-> cc, cc |-> cc, height |-> towers[cc].height, speed |-> towers[cc].speed] :
             cc \in getNonFrozenTowers(towers)}
    ELSE {[id |-> a, cc |-> getCurrentChoiceClass(vote, agents, a),
           height |-> agents[a].height, speed |-> agents[a].speed] :
             a \in getActiveAgents(vote, agents)}

\* the distributions that give every tower its height and every entity its
\* height + t * speed
Admissible(t) ==
    {m \in Distributions :
        /\ \A cc \in DOMAIN towers : m[cc] >= towers[cc].height
        /\ \A e \in Entities : m[e.cc] >= e.height + t * e.speed}

\* the result of the lambda-step the loop is about to take
LambdaStep ==
    IF variant = "SSR" THEN computeLambdaSSR(towers, Scale)
    ELSE computeLambdaSR(vote, agents, towers, Scale)

LoopRunning == pc = "loop" /\ ~stateIsFinished(vote, agents)

\* C15: in every reachable state of every variant the largest slack of every
\* active entity at the fixed time t* is nonnegative (within the tolerance), and
\* the negative-slack error is never raised.
C15_SlackNonnegative ==
    /\ ~(pc = "error" /\ error = "slack")
    /\ LoopRunning =>
         LET admissible == Admissible(LambdaStep.lambdaOpt)
         IN  /\ admissible # {}
             /\ \A e \in Entities :
                  isNonnegative(Max({m[e.cc] : m \in admissible})
                                  - LambdaStep.lambdaOpt * e.speed - e.height)

\* a step is due in which one entity has slack 0 and another a positive slack
C15_Witness ==
    /\ LoopRunning /\ iterations >= 1
    /\ LambdaStep.tight # {}
    /\ \E e \in Entities : e.id \notin LambdaStep.tight /\ e.height > 0

\* C19: the lambda-step returns the largest t in [0, maxTime] at which some
\* distribution gives every existing tower its height and every active entity
\* its height + t * speed, and its tight set is exactly the set of the active
\* entities whose largest slack at that t is within the tolerance of 0.
C19_LambdaStepIsLargestTime ==
    LoopRunning =>
        LET tStar == LambdaStep.lambdaOpt
            admissible == Admissible(tStar)
        IN  /\ LambdaStep.error = ""
            /\ tStar \in 0..Scale
            /\ admissible # {}
            /\ \A t \in 0..Scale : t > tStar => Admissible(t) = {}
            /\ LambdaStep.tight =
                 {e.id : e \in {f \in Entities :
                                  isClose(Max({m[f.cc] : m \in admissible})
                                            - tStar * f.speed - f.height, 0)}}

\* a step is due that advances by a time strictly between 0 and 1 while a tower
\* no agent stands on holds its height
C19_Witness ==
    /\ LoopRunning
    /\ LambdaStep.lambdaOpt > 0 /\ LambdaStep.lambdaOpt < Scale
    /\ \E cc \in DOMAIN towers :
         /\ towers[cc].height > 0
         /\ \A e \in Entities : e.cc # cc

\* C16: constructing a SolverSettings with an absolute or a relative tolerance
\* that is 0 or negative raises, and no settings object is produced.
C16_NonPositiveToleranceRaises ==
    (/\ call.op = "SolverSettings" /\ pc # "call"
     /\ (call.absoluteTolerance <= 0 \/ call.relativeTolerance <= 0))
        => pc = "raised" /\ result.value = << >>

\* the constructor raised for a relative tolerance of 0 alone
C16_Witness ==
    /\ call.op = "SolverSettings" /\ pc = "raised" /\ error = "Tolerance"
    /\ call.solverIsLpSolver /\ call.absoluteTolerance > 0 /\ call.relativeTolerance = 0

\* C17: the AssignmentLottery built from a lottery over full assignments gives,
\* for every agent and every object, the sum of the probabilities of the
\* assignments that pair the agent with the object.
C17_MarginalsAreSums ==
    (call.op = "AssignmentLottery" /\ pc # "call") =>
        /\ pc = "returned"
        /\ \A agent \in AgentIds : \A obj \in Choices :
             result.value[agent][obj] =
                SumOver([asg \in Assignments |->
                           IF asg[agent] = obj THEN call.assignments[asg] ELSE 0], Assignments)

\* a marginal that is the sum of two positive probabilities
C17_Witness ==
    /\ call.op = "AssignmentLottery" /\ pc = "returned"
    /\ \E agent \in AgentIds : \E obj \in Choices :
         /\ \A asg \in Assignments : asg[agent] = obj => call.assignments[asg] > 0
         /\ result.value[agent][obj] < Scale

\* some agent of the dict lists an outcome in two of its tie-groups
Duplicated(choiceDict) ==
    \E a \in DOMAIN choiceDict : \E i, j \in DOMAIN choiceDict[a] :
        i # j /\ choiceDict[a][i] \cap choiceDict[a][j] # {}

\* C18: parseVoteFromDict with removeDuplicateChoices = False raises whenever
\* some agent lists the same outcome in two different tie-groups.
C18_DuplicateChoicesRaise ==
    (/\ call.op = "parseVoteFromDict" /\ pc # "call"
     /\ ~call.removeDuplicateChoices
     /\ Duplicated(call.choiceDict))
        => pc = "raised" /\ result.value = << >>

\* the call raised for a tie-group that overlaps an earlier one without lying in it
C18_Witness ==
    /\ call.op = "parseVoteFromDict" /\ pc = "raised" /\ error = "Duplicate"
    /\ call.addMissingChoices /\ ~call.removeDuplicateChoices
    /\ \E a \in DOMAIN call.choiceDict :
         /\ Len(call.choiceDict[a]) = 2
         /\ call.choiceDict[a][1] \cap call.choiceDict[a][2] # {}
         /\ ~(call.choiceDict[a][2] \subseteq call.choiceDict[a][1])

\* C20: after the agent-centric advance(dt, bouncingAgents) has returned, every
\* agent that was not finished and is in bouncingAgents is one tie-group further
\* (finished, if it was on its last) at height 0, and every other agent that
\* was not finished is on the same tie-group at its old height + dt * speed,
\* clamped to [0, 1].
C20_AdvanceMovesAgents ==
    (call.op = "SRState.advance" /\ pc = "returned") =>
        \A a \in getActiveAgents(AdvanceVote, call.agents) :
            IF a \in call.bouncingAgents
            THEN /\ result.value.agents[a].cur = call.agents[a].cur + 1
                 /\ result.value.agents[a].height = 0
                 /\ isFinished(AdvanceVote, result.value.agents, a)
                      <=> call.agents[a].cur = Len(AdvanceVote[a])
            ELSE /\ result.value.agents[a].cur = call.agents[a].cur
                 /\ result.value.agents[a].height = Clamped(Projected(call.agents[a]))

\* one agent left its last tie-group from a positive height while another climbed
C20_Witness ==
    /\ call.op = "SRState.advance" /\ pc = "returned" /\ call.climbingTime > 0
    /\ \E a, b \in getActiveAgents(AdvanceVote, call.agents) :
         /\ a \in call.bouncingAgents /\ call.agents[a].height > 0
         /\ isFinished(AdvanceVote, result.value.agents, a)
         /\ b \notin call.bouncingAgents
         /\ result.value.agents[b].height > call.agents[b].height

\* the non-finished agents of the call that stand on the tie-group cc
Standing(cc) ==
    {a \in getActiveAgents(AdvanceVote, call.agents) :
        getCurrentChoiceClass(AdvanceVote, call.agents, a) = cc}

\* C21: after the agent-centric advance(dt, bouncingAgents) has returned, the
\* height of each tower is the maximum of its height before the call and the
\* projected heights (old personal height + dt * speed, bounded to [0, 1]) of
\* the agents that were active on its tie-group before the call, whatever the
\* order the agents are processed in.
C21_TowerIsMaximum ==
    (call.op = "SRState.advance" /\ pc = "returned") =>
        /\ \A cc \in DOMAIN result.value.towers :
             result.value.towers[cc].height =
                Max({IF cc \in DOMAIN call.towers THEN call.towers[cc].height ELSE 0}
                    \cup {Clamped(Projected(call.agents[a])) : a \in Standing(cc)})
        /\ \A order \in Orders(DOMAIN AdvanceVote) :
             callAdvanceSR([agents |-> call.agents, towers |-> call.towers, error |-> ""],
                           order, call.climbingTime, call.bouncingAgents).value.towers
                = result.value.towers

\* two agents climbed one tower to different heights, and a tower that stood
\* above its only agent's projected height kept its height
C21_Witness ==
    /\ call.op = "SRState.advance" /\ pc = "returned" /\ call.climbingTime > 0
    /\ \/ \E cc \in DOMAIN call.towers : \E a, b \in Standing(cc) :
            /\ Projected(call.agents[a]) < Projected(call.agents[b])
            /\ call.towers[cc].height < Projected(call.agents[a])
       \/ \E cc \in DOMAIN call.towers : \E a \in Standing(cc) :
            /\ call.agents[a].height < Projected(call.agents[a])
            /\ Projected(call.agents[a]) < call.towers[cc].height

\* the non-finished agents of the call whose current tie-group is cc
Pushing(cc) ==
    {a \in getActiveAgents(SpeedVote, call.agents) :
        getCurrentChoiceClass(SpeedVote, call.agents, a) = cc}

\* the non-finished agents of the call whose current tie-group lies in cc and
\* has exactly one element fewer
PushingFromBelow(cc) ==
    {a \in getActiveAgents(SpeedVote, call.agents) :
        LET current == getCurrentChoiceClass(SpeedVote, call.agents, a)
        IN  current \subseteq cc /\ Cardinality(current) + 1 = Cardinality(cc)}

\* C22: after adjustTowerSpeeds the speed of every tower is the number of
\* non-finished agents whose current tie-group is the tower's outcome set plus,
\* if the tower is not frozen, the number of non-finished agents whose current
\* tie-group is contained in the tower's set and has exactly one element fewer.
C22_SpeedCountsImmediateSupersets ==
    (call.op = "SSRState.adjustTowerSpeeds" /\ pc = "returned") =>
        \A cc \in DOMAIN result.value.towers :
            result.value.towers[cc].speed =
                Cardinality(Pushing(cc))
                + (IF result.value.towers[cc].frozen THEN 0
                   ELSE Cardinality(PushingFromBelow(cc)))

\* the number of agents whose first tie-group is a subset of S
FirstWithin(S) == Cardinality({a \in DOMAIN vote : vote[a][1] \subseteq S})

\* the solve call stands before its first lambda-step
BeforeFirstStep == pc = "loop" /\ iterations = 0

\* C23: before the main loop of solveVoteSPSR, for every non-empty subset S of
\* the outcome set (the full outcome set included) the tower of S has height
\* (number of agents whose first tie-group is a subset of S) / (number of
\* agents), and every agent's personal height is the height of the tower of its
\* own first tie-group.
C23_InitialHeightsOfAllSubsets ==
    (variant = "SPSR" /\ BeforeFirstStep) =>
        /\ \A S \in ChoiceClasses :
             /\ S \in DOMAIN towers
             /\ towers[S].height * getAgentCount(vote) = FirstWithin(S) * Scale
        /\ \A a \in DOMAIN vote :
             /\ vote[a][1] \in DOMAIN towers
             /\ agents[a].height = towers[vote[a][1]].height

\* C24: before the first lambda-step of solveVotePSR every agent is on its
\* first tie-group at height c/n, n the number of agents and c the number of
\* agents whose first tie-group is a subset of this agent's first tie-group;
\* the tower of that tie-group has the same height, and every speed is 1.
C24_InitialHeightsPSR ==
    (variant = "PSR" /\ BeforeFirstStep) =>
        \A a \in DOMAIN vote :
            /\ agents[a].cur = 1
            /\ agents[a].height * getAgentCount(vote) = FirstWithin(vote[a][1]) * Scale
            /\ vote[a][1] \in DOMAIN towers
            /\ towers[vote[a][1]].height = agents[a].height
            /\ agents[a].speed = 1

\* three agents stand at three different heights before the first lambda-step
C24_Witness ==
    /\ variant = "PSR" /\ BeforeFirstStep
    /\ \E a, b, c \in DOMAIN vote :
         agents[a].height < agents[b].height /\ agents[b].height < agents[c].height

\* the lambda-step from the initial state under the co-demand speeds
FirstStepPSR == computeLambdaSR(vote, coDemandSpeeds(vote, agents), towers, Scale)

\* C25: for every population, under the co-demand speeds of PSR's first step
\* the maximal feasible simultaneous advance from the initial state is at least
\* 1/|agents|: no agent is tight at any earlier time.
C25_NoFreezeBeforeFirstStep ==
    (variant = "PSR" /\ pc = "start") =>
        /\ FirstStepPSR.error = ""
        /\ FirstStepPSR.lambdaOpt * getAgentCount(vote) >= Scale

\* three agents, one of them at speed 2, can advance by 1/3 and no further
C25_Witness ==
    /\ variant = "PSR" /\ pc = "start" /\ getAgentCount(vote) = 3
    /\ \E a \in DOMAIN vote : coDemandSpeeds(vote, agents)[a].speed = 2
    /\ FirstStepPSR.lambdaOpt * getAgentCount(vote) = Scale
    /\ FirstStepPSR.tight # {}

\* the tower of cc is frozen when the call has returned
FrozenAfter(cc) ==
    cc \in DOMAIN result.value.towers /\ result.value.towers[cc].frozen

\* the first tie-group of agent a, from its cursor on, whose tower is not frozen
\* when the call has returned (one past the last, if there is none)
FirstOpen(a) ==
    Min({i \in call.agents[a].cur..(Len(AdvanceVote[a]) + 1) :
            i > Len(AdvanceVote[a]) \/ ~FrozenAfter(AdvanceVote[a][i])})

\* C26: after every tower-centric advance no non-finished agent's current
\* tie-group has a frozen tower: each agent's cursor has been moved past all
\* consecutive tie-groups whose towers are frozen, and no further, so that the
\* adjustTowerSpeeds call that ends the advance never pushes a frozen tower.
C26_NoAgentOnFrozenTower ==
    /\ call.op = "SSRState.advance" => ~(pc = "raised" /\ error = "speed")
    /\ (call.op = "SSRState.advance" /\ pc = "returned") =>
        /\ \A a \in getActiveAgents(AdvanceVote, result.value.agents) :
             ~FrozenAfter(getCurrentChoiceClass(AdvanceVote, result.value.agents, a))
        /\ \A a \in getActiveAgents(AdvanceVote, call.agents) :
             result.value.agents[a].cur = FirstOpen(a)

\* an agent was moved past two frozen towers in one advance and is not finished
C26_Witness ==
    /\ call.op = "SSRState.advance" /\ pc = "returned"
    /\ \E a \in getActiveAgents(AdvanceVote, result.value.agents) :
         result.value.agents[a].cur = call.agents[a].cur + 2

\* C27 as stated: after the tower-centric advance(dt, freezingTowers) a tower is
\* frozen exactly when it was frozen before the call or it is in freezingTowers.
C27_FrozenIffFreezing ==
    (call.op = "SSRState.advance" /\ pc = "returned") =>
        \A cc \in DOMAIN result.value.towers :
            result.value.towers[cc].frozen
                <=> \/ cc \in DOMAIN call.towers /\ call.towers[cc].frozen
                    \/ cc \in call.freezingTowers

\* C27, amended: after the tower-centric advance(dt, freezingTowers) a tower is
\* frozen exactly when it was frozen before the call, or it is in
\* freezingTowers, or it was not frozen and the call has raised it to height 1.
C27_FrozenIffFreezingOrFull ==
    (call.op = "SSRState.advance" /\ pc = "returned") =>
        \A cc \in DOMAIN result.value.towers :
            result.value.towers[cc].frozen
                <=> \/ cc \in DOMAIN call.towers /\ call.towers[cc].frozen
                    \/ cc \in call.freezingTowers
                    \/ /\ cc \in DOMAIN call.towers /\ ~call.towers[cc].frozen
                       /\ Clamped(Projected(call.towers[cc])) = Scale

\* one tower froze below height 1 as a member of freezingTowers, another froze
\* at height 1 without being one, a third went on climbing
C27_Witness ==
    /\ call.op = "SSRState.advance" /\ pc = "returned"
    /\ \E c1, c2, c3 \in getNonFrozenTowers(call.towers) :
         /\ c1 \in call.freezingTowers /\ result.value.towers[c1].frozen
         /\ result.value.towers[c1].height < Scale
         /\ c2 \notin call.freezingTowers /\ result.value.towers[c2].frozen
         /\ ~result.value.towers[c3].frozen
         /\ result.value.towers[c3].height > call.towers[c3].height

\* C28: the agent-centric advance leaves unchanged the progress record of every
\* agent that was already finished, the speed of every agent, and the height of
\* every tower whose tie-group is not the current tie-group of a non-finished
\* agent; a finished agent does not become non-finished again.
C28_AdvanceFrame ==
    (call.op = "SRState.advance" /\ pc = "returned") =>
        /\ \A a \in DOMAIN call.agents :
             /\ result.value.agents[a].speed = call.agents[a].speed
             /\ isFinished(AdvanceVote, call.agents, a) =>
                  /\ result.value.agents[a] = call.agents[a]
                  /\ isFinished(AdvanceVote, result.value.agents, a)
        /\ \A cc \in DOMAIN call.towers :
             Standing(cc) = {} =>
                /\ cc \in DOMAIN result.value.towers
                /\ result.value.towers[cc].height = call.towers[cc].height

\* a faster agent left its tie-group while the other agent was finished, and
\* the tower of a tie-group left earlier stood at a positive height
C28_Witness ==
    /\ call.op = "SRState.advance" /\ pc = "returned" /\ call.climbingTime > 0
    /\ \E a, b \in DOMAIN call.agents :
         /\ isFinished(AdvanceVote, call.agents, a)
         /\ ~isFinished(AdvanceVote, call.agents, b)
         /\ b \in call.bouncingAgents /\ call.agents[b].speed = 2
         /\ ~isFinished(AdvanceVote, result.value.agents, b)
    /\ \E cc \in DOMAIN call.towers :
         Standing(cc) = {} /\ 0 < call.towers[cc].height /\ call.towers[cc].height < Scale

\* the outcomes agent a of the dict lists before its i-th tie-group
ListedBefore(a, i) == UNION {call.choiceDict[a][j] : j \in 1..(i - 1)}

\* the outcomes of the dict that agent a does not list
Omitted(a) == voteChoices(call.choiceDict) \ UNION Range(call.choiceDict[a])

\* C29: for every input dict parseVoteFromDict with its default options returns
\* a population in which each agent's tie-groups are pairwise disjoint and
\* their union is the set of all outcomes any agent lists: an outcome an agent
\* lists more than once is kept in its most-preferred occurrence only, and the
\* outcomes an agent omits are added together as one extra last tie-group.
C29_DefaultParseCompletes ==
    (/\ call.op = "parseVoteFromDict" /\ pc # "call"
     /\ call.addMissingChoices /\ call.removeDuplicateChoices) =>
        /\ pc = "returned"
        /\ result.value.choices = voteChoices(call.choiceDict)
        /\ DOMAIN result.value.agents = DOMAIN call.choiceDict
        /\ \A a \in DOMAIN call.choiceDict :
             LET preference == result.value.agents[a]
             IN  /\ \A i, j \in DOMAIN preference :
                      i # j => preference[i] \cap preference[j] = {}
                 /\ UNION Range(preference) = voteChoices(call.choiceDict)
                 /\ \A i \in DOMAIN call.choiceDict[a] :
                      preference[i] = call.choiceDict[a][i] \ ListedBefore(a, i)
                 /\ IF Omitted(a) = {}
                    THEN Len(preference) = Len(call.choiceDict[a])
                    ELSE /\ Len(preference) = Len(call.choiceDict[a]) + 1
                         /\ preference[Len(preference)] = Omitted(a)

\* an agent listed an outcome twice and omitted another: its second tie-group
\* lost the duplicate and a third one was added
C29_Witness ==
    /\ call.op = "parseVoteFromDict" /\ pc = "returned"
    /\ call.addMissingChoices /\ call.removeDuplicateChoices
    /\ \E a \in DOMAIN call.choiceDict :
         /\ Len(call.choiceDict[a]) = 2 /\ Len(result.value.agents[a]) = 3
         /\ result.value.agents[a][2] # {}
         /\ result.value.agents[a][2] # call.choiceDict[a][2]

\* C30: checkBound(v, a, b) with a <= b returns v when v lies in [a, b], returns
\* the nearer bound when v lies outside [a, b] within the tolerance of that
\* bound, and raises when v lies outside [a, b] by more than the tolerance;
\* whenever it returns, the result lies in [a, b].
C30_CheckBound ==
    (call.op = "checkBound" /\ pc # "call" /\ call.a <= call.b) =>
        /\ (call.a <= call.value /\ call.value <= call.b) =>
              pc = "returned" /\ result.value = call.value
        /\ (call.value < call.a /\ isClose(call.value, call.a)) =>
              pc = "returned" /\ result.value = call.a
        /\ (call.b < call.value /\ isClose(call.b, call.value)) =>
              pc = "returned" /\ result.value = call.b
        /\ (call.value < call.a /\ ~isClose(call.value, call.a)) => pc = "raised"
        /\ (call.b < call.value /\ ~isClose(call.b, call.value)) => pc = "raised"
        /\ pc = "returned" => call.a <= result.value /\ result.value <= call.b

\* a value two units above the upper bound was returned as the bound
C30_Witness ==
    /\ call.op = "checkBound" /\ pc = "returned"
    /\ call.a < call.b /\ call.value = call.b + 2 /\ result.value = call.b

\* what a step of the main loop advances: the agents' cursors (agent-centric
\* engine), the number of frozen towers (tower-centric engine)
Progress ==
    IF variant = "SSR"
    THEN Cardinality({cc \in DOMAIN towers : towers[cc].frozen})
    ELSE SumOver([a \in DOMAIN agents |-> agents[a].cur], DOMAIN agents)

\* C31: in the main loop of every variant each lambda-step returns a non-empty
\* tight set while some agent is not finished, so every iteration moves a
\* cursor on (agent-centric) or freezes a tower (tower-centric); no step raises,
\* and the loop is never still running after MaxIterations iterations: it
\* reaches the state where all agents are finished.
C31_EveryStepProgresses ==
    /\ [](pc # "error" /\ (LoopRunning => iterations < MaxIterations))
    /\ [][iterations' = iterations + 1 => (tight' # {} /\ Progress' > Progress)]_vars

\* the loop has ended after a step in which a single entity was tight
C31_Witness ==
    /\ pc = "loop" /\ stateIsFinished(vote, agents)
    /\ iterations >= 3 /\ Cardinality(tight) = 1

\* the height of the tower of cc, 0 if the tower does not exist yet
TowerHeight(cc) == IF cc \in DOMAIN towers THEN towers[cc].height ELSE 0

\* C32: in the agent-centric engine, at the start of every lambda-step the
\* tower of each non-finished agent's current tie-group (height 0 if it does
\* not exist yet) is at least as high as the agent.
C32_TowerAboveAgent ==
    (variant # "SSR" /\ LoopRunning) =>
        \A a \in getActiveAgents(vote, agents) :
            TowerHeight(getCurrentChoiceClass(vote, agents, a)) >= agents[a].height

\* one agent stands at the top of its tower while another has just arrived at a
\* tie-group that has no tower yet
C32_Witness ==
    /\ variant # "SSR" /\ LoopRunning /\ iterations >= 1
    /\ \E a, b \in getActiveAgents(vote, agents) :
         /\ agents[a].height > 0
         /\ TowerHeight(getCurrentChoiceClass(vote, agents, a)) = agents[a].height
         /\ getCurrentChoiceClass(vote, agents, b) \notin DOMAIN towers

\* C33: every tie-group of every preference of a population parseVoteFromDict
\* returns is non-empty, whatever the dict and the options.
C33_TieGroupsNonEmpty ==
    (call.op = "parseVoteFromDict" /\ pc = "returned") =>
        \A a \in DOMAIN result.value.agents :
            \A i \in DOMAIN result.value.agents[a] : result.value.agents[a][i] # {}

====
